---- MODULE Spec2Model ----
(***************************************************************************)
(* hookform-controller-proxy (src/src/index.tsx).                          *)
(*                                                                         *)
(* A proxy builder over a react-hook-form form: property accesses build a  *)
(* path, a call turns the path into a FieldController element, and         *)
(* FieldController adapts react-hook-form's Controller render callback to  *)
(* a normalised props object (value, name, onBlur, onChange, error,        *)
(* required).                                                              *)
(*                                                                         *)
(* Strings are sequences of one-character strings, so that join, endsWith  *)
(* and slice are computed as the code computes them.  JavaScript values    *)
(* are records [t, s, keys, vals]: undefined, a string, or an object with  *)
(* its keys and values in enumeration order.                               *)
(***************************************************************************)
EXTENDS Naturals, Sequences, FiniteSets, TLC

VARIABLES
    heap,        \* the path arrays; heap[1] is the shared frozen emptyPath
    proxies,     \* the proxies created so far: [form, path (index in heap)]
    trace,       \* per proxy: the form given to createControllerProxy and the
                 \* property names accessed to reach it (history)
    calls,       \* per proxy: the name and required flag its first call gave
    applyIn,     \* the proxy and the render function of the latest call
    element,     \* the FieldController element the latest call returned
    controller,  \* the Controller element FieldController returned for it
    fieldIn,     \* field and fieldState of the latest Controller callback
    renderCalls, \* the props of the calls of the user's render function in it
    output,      \* what that callback returned
    changeArg,   \* the argument of the latest props.onChange call
    changes,     \* the events the Controller's field.onChange got in that call
    formValue,   \* the form's value of the field (react-hook-form's state)
    formCalls,   \* methods of the form object called by this layer
    formReads,   \* properties of the form object read by this layer
    errIn,       \* input of a direct flattenErrors evaluation
    errOut       \* its result

vars == <<heap, proxies, trace, calls, applyIn, element, controller, fieldIn,
          renderCalls, output, changeArg, changes, formValue, formCalls,
          formReads, errIn, errOut>>

proxyVars == <<heap, proxies, trace>>
renderVars == <<controller, fieldIn, renderCalls, output, changeArg, changes>>
formVars == <<formValue, formCalls, formReads>>
flattenVars == <<errIn, errOut>>

----------------------------------------------------------------------------
(* Bounds *)

MaxProxies == 3
RenderProxies == 2
MaxErrNodes == 4

Forms == {1, 2}
Renders == {1, 2}

----------------------------------------------------------------------------
(* JavaScript values *)

Undef == [t |-> "undefined", s |-> <<>>, keys |-> <<>>, vals |-> <<>>]
Str(s) == [t |-> "string", s |-> s, keys |-> <<>>, vals |-> <<>>]
Obj(keys, vals) == [t |-> "object", s |-> <<>>, keys |-> keys, vals |-> vals]
\* the outcome of an evaluation that throws a TypeError
Throw == [t |-> "throw", s |-> <<>>, keys |-> <<>>, vals |-> <<>>]
\* no evaluation yet
NotRun == [t |-> "notrun", s |-> <<>>, keys |-> <<>>, vals |-> <<>>]

Falsy(v) == v.t = "undefined" \/ (v.t = "string" /\ v.s = <<>>)
HasKey(o, k) == \E i \in 1..Len(o.keys) : o.keys[i] = k
ValueAt(o, k) == o.vals[CHOOSE i \in 1..Len(o.keys) : o.keys[i] = k]

\* Array.prototype.join on strings
RECURSIVE Join(_, _)
Join(parts, sep) ==
    IF parts = <<>> THEN <<>>
    ELSE IF Len(parts) = 1 THEN parts[1]
    ELSE parts[1] \o sep \o Join(Tail(parts), sep)

EndsWith(s, suffix) ==
    /\ Len(s) >= Len(suffix)
    /\ SubSeq(s, Len(s) - Len(suffix) + 1, Len(s)) = suffix

\* s.slice(0, -1)
SliceDropLast(s) == IF s = <<>> THEN <<>> ELSE SubSeq(s, 1, Len(s) - 1)

----------------------------------------------------------------------------
(* The proxy: createControllerProxy, the get trap and the apply trap *)

optionalIndicator == <<"$">>
emptyPath == <<>>

\* the property names the model accesses
Steps == { <<"a">>, <<"a", "$">>, <<"b">>, <<"b", "$", "$">> }

NoElement == [type |-> "none", form |-> 0, name |-> <<>>, render |-> 0, required |-> FALSE]
NoCall == [called |-> FALSE, name |-> <<>>, required |-> FALSE]
NoApply == [proxy |-> 0, render |-> 0]

PathAsString(path) == Join(path, <<".">>)
IsOptional(path) == EndsWith(PathAsString(path), optionalIndicator)
\* faulty variant: every trailing indicator is removed
RECURSIVE StripAll(_)
StripAll(s) == IF EndsWith(s, optionalIndicator) THEN StripAll(SliceDropLast(s)) ELSE s
NameStripAll(path) == StripAll(PathAsString(path))
\* faulty variant: the indicator is left in the name
NameKeepIndicator(path) == PathAsString(path)
Name(path) ==
    IF IsOptional(path) THEN SliceDropLast(PathAsString(path)) ELSE PathAsString(path)
Required(path) == ~IsOptional(path)

\* the element the apply trap returns
ApplyElement(form, path, render) ==
    [type |-> "FieldController", form |-> form, name |-> Name(path),
     render |-> render, required |-> Required(path)]

\* faulty variant: the step is pushed onto the parent's array, which the new proxy shares
GetPathPush(h, ref, step) ==
    [heap |-> [h EXCEPT ![ref] = Append(@, step)], ref |-> ref]
\* [...path, String(step)]: a new array; the proxy made by get refers to it
GetPath(h, ref, step) ==
    [heap |-> Append(h, Append(h[ref], step)), ref |-> Len(h) + 1]

PathOf(p) == heap[proxies[p].path]

----------------------------------------------------------------------------
(* flattenErrors *)

\* a value as Array.prototype.join writes it: undefined gives the empty string
JoinString(v) ==
    IF v.t = "string" THEN v.s
    ELSE IF v.t = "undefined" THEN <<>>
    ELSE <<"[object Object]">>

RECURSIVE flattenErrors(_)
\* faulty variant: the parts are joined with a comma
flattenErrorsComma(errors) ==
    IF Falsy(errors) THEN Undef
    ELSE IF errors.t # "object" THEN Throw
    ELSE IF HasKey(errors, "message") THEN ValueAt(errors, "message")
    ELSE LET rs == [i \in 1..Len(errors.vals) |-> flattenErrors(errors.vals[i])]
         IN  IF \E i \in 1..Len(rs) : rs[i].t = "throw" THEN Throw
             ELSE Str(Join([i \in 1..Len(rs) |-> JoinString(rs[i])], <<",">>))
flattenErrors(errors) ==
    IF Falsy(errors) THEN Undef
    \* the in operator throws a TypeError on a primitive
    ELSE IF errors.t # "object" THEN Throw
    ELSE IF HasKey(errors, "message") THEN ValueAt(errors, "message")
    ELSE LET rs == [i \in 1..Len(errors.vals) |-> flattenErrors(errors.vals[i])]
         IN  IF \E i \in 1..Len(rs) : rs[i].t = "throw" THEN Throw
             ELSE Str(Join([i \in 1..Len(rs) |-> JoinString(rs[i])], <<"\n">>))

----------------------------------------------------------------------------
(* FieldController *)

NoController ==
    [type |-> "none", control |-> 0, name |-> <<>>, rules |-> [required |-> FALSE],
     render |-> [name |-> <<>>, render |-> 0, required |-> FALSE]]
NoField == [value |-> Undef, onBlur |-> "none", invalid |-> FALSE, error |-> Undef]
NoProps ==
    [value |-> Undef, name |-> <<>>, onBlur |-> "none",
     onChange |-> [wrapped |-> "none", name |-> <<>>], error |-> Undef,
     required |-> FALSE]
NoOutput == [status |-> "none", by |-> 0, props |-> NoProps]
Threw == [status |-> "threw", by |-> 0, props |-> NoProps]

\* faulty variant: the rule is always on
ControllerRulesAlways(required) == [required |-> TRUE]
\* rules={{ required }}
ControllerRules(required) == [required |-> required]

\* the Controller element FieldController returns; its render callback closes
\* over name, render and required
ControllerElement(el) ==
    [type |-> "Controller", control |-> el.form, name |-> el.name,
     rules |-> ControllerRules(el.required),
     render |-> [name |-> el.name, render |-> el.render, required |-> el.required]]

\* faulty variant: FieldController registers the field on the form itself
FormUseRegister(fcalls, freads) ==
    [calls |-> Append(fcalls, "register"), reads |-> freads \cup {"control"}]
\* what FieldController does with the form object: it reads form.control
FormUse(fcalls, freads) == [calls |-> fcalls, reads |-> freads \cup {"control"}]

\* faulty variant: the error is flattened whether or not the field is invalid
ErrorPropAlways(invalid, error) == flattenErrors(error)
\* error: invalid ? flattenErrors(error) : undefined
ErrorProp(invalid, error) == IF invalid THEN flattenErrors(error) ELSE Undef

\* the object handed to the user's render function
RenderProps(closure, value, onChange, onBlur, error) ==
    [value |-> value, name |-> closure.name, onBlur |-> onBlur,
     onChange |-> [wrapped |-> onChange, name |-> closure.name],
     error |-> error, required |-> closure.required]

\* the element the user's render function returns for these props
UserRender(render, p) == [status |-> "returned", by |-> render, props |-> p]

\* faulty variant: an undefined value is sent as the empty string
ChangeEventNoUndefined(newValue, name) ==
    [type |-> "change",
     target |-> [value |-> IF newValue = Undef THEN Str(<<>>) ELSE newValue,
                 name |-> name]]
\* { type: "change", target: { value: newValue, name } }
ChangeEvent(newValue, name) ==
    [type |-> "change", target |-> [value |-> newValue, name |-> name]]

\* the calls props.onChange(newValue) makes to the Controller's field.onChange
OnChangeCalls(newValue, name) == <<ChangeEvent(newValue, name)>>

\* react-hook-form's field.onChange stores the event's target value
ControllerFieldOnChange(event) == event.target.value

----------------------------------------------------------------------------
(* Inputs *)

JSVals == {Undef, Str(<<"x">>), Str(<<"y">>)}
BlurHandlers == {"blurA", "blurB"}
Messages == {Str(<<"x">>), Str(<<"y">>), Str(<<>>)}

\* a FieldError: { type, message }
LeafError(m) == Obj(<<"type", "message">>, <<Str(<<"r">>), m>>)
\* a FieldError without a message key: { type }
LeafNoMessage == Obj(<<"type">>, <<Str(<<"r">>)>>)
FieldKey(i) == "k" \o ToString(i)
\* a FieldErrors object: one key per field, in enumeration order
Nested(children) == Obj([i \in 1..Len(children) |-> FieldKey(i)], children)

MessageLeaves == {LeafError(m) : m \in Messages}
Leaves == MessageLeaves \cup {LeafError(Undef), LeafNoMessage}

RECURSIVE TreesOfSize(_, _), ForestsOfSize(_, _)
\* the error structures of exactly n objects over the given leaves
TreesOfSize(leaves, n) ==
    IF n = 1 THEN leaves \cup {Nested(<<>>)}
    ELSE {Nested(f) : f \in ForestsOfSize(leaves, n - 1)}
ForestsOfSize(leaves, k) ==
    IF k = 0 THEN {<<>>}
    ELSE UNION {{<<t>> \o f : t \in TreesOfSize(leaves, j),
                              f \in ForestsOfSize(leaves, k - j)} : j \in 1..k}
TreesUpTo(leaves, n) == UNION {TreesOfSize(leaves, j) : j \in 1..n}

ErrorInputs == TreesUpTo(Leaves, MaxErrNodes) \cup {Undef}
\* the error objects the Controller passes in the model: absent, every leaf,
\* an empty structure and a structure with an empty part
RenderErrors ==
    {Undef, Nested(<<>>), Nested(<<Nested(<<>>), LeafError(Str(<<"x">>))>>)} \cup Leaves
\* the paths of the proxies that are called and rendered
RenderPaths ==
    { <<>>, << <<"a", "$">> >>, << <<"a", "$">>, <<"b">> >>,
      << <<"a">>, <<"b", "$", "$">> >> }

----------------------------------------------------------------------------
(* Actions *)

Idle ==
    /\ applyIn = NoApply
    /\ element = NoElement
    /\ controller = NoController
    /\ fieldIn = NoField
    /\ renderCalls = <<>>
    /\ output = NoOutput
    /\ changeArg = NotRun
    /\ changes = <<>>
    /\ formValue = Undef
    /\ formCalls = <<>>
    /\ formReads = {}

Init ==
    /\ heap = <<emptyPath>>
    /\ proxies = <<>>
    /\ trace = <<>>
    /\ calls = <<>>
    /\ Idle
    /\ errIn = Undef
    /\ errOut = NotRun

\* createControllerProxy(form)
CreateControllerProxy(cap, form) ==
    /\ Len(proxies) < cap
    /\ proxies' = Append(proxies, [form |-> form, path |-> 1])
    /\ trace' = Append(trace, [form |-> form, steps |-> <<>>])
    /\ calls' = Append(calls, NoCall)
    /\ UNCHANGED <<heap, applyIn, element, renderVars, formVars, flattenVars>>

\* the get trap of proxy p: p[step]
Get(cap, p, step) ==
    /\ Len(proxies) < cap
    /\ LET g == GetPath(heap, proxies[p].path, step)
       IN  /\ heap' = g.heap
           /\ proxies' = Append(proxies, [form |-> proxies[p].form, path |-> g.ref])
    /\ trace' = Append(trace, [form |-> trace[p].form,
                               steps |-> Append(trace[p].steps, step)])
    /\ calls' = Append(calls, NoCall)
    /\ UNCHANGED <<applyIn, element, renderVars, formVars, flattenVars>>

\* the apply trap of proxy p: p(render).  The model follows the element of
\* the latest call: what was mounted for an earlier one is dropped.
Apply(p, render) ==
    /\ applyIn' = [proxy |-> p, render |-> render]
    /\ element' = ApplyElement(proxies[p].form, PathOf(p), render)
    /\ calls' = IF calls[p].called THEN calls
                ELSE [calls EXCEPT ![p] = [called |-> TRUE,
                                           name |-> element'.name,
                                           required |-> element'.required]]
    /\ controller' = NoController
    /\ fieldIn' = NoField
    /\ renderCalls' = <<>>
    /\ output' = NoOutput
    /\ changeArg' = NotRun
    /\ changes' = <<>>
    /\ UNCHANGED <<proxyVars, formVars, flattenVars>>

\* FieldController is rendered with the element's props and returns a Controller
FieldController ==
    /\ element # NoElement
    /\ controller = NoController
    /\ controller' = ControllerElement(element)
    /\ LET u == FormUse(formCalls, formReads)
       IN  /\ formCalls' = u.calls
           /\ formReads' = u.reads
    /\ UNCHANGED <<proxyVars, calls, applyIn, element, fieldIn, renderCalls,
                   output, changeArg, changes, formValue, flattenVars>>

\* the Controller invokes its render callback with the field and its state
ControllerRender(onBlur, invalid, error) ==
    /\ controller # NoController
    /\ fieldIn' = [value |-> formValue, onBlur |-> onBlur, invalid |-> invalid,
                   error |-> error]
    /\ LET e == ErrorProp(invalid, error)
           p == RenderProps(controller.render, formValue, "fieldOnChange", onBlur, e)
       IN  IF e.t = "throw"
           THEN \* the callback throws before render is called
                /\ renderCalls' = <<>>
                /\ output' = Threw
           ELSE /\ renderCalls' = <<p>>
                /\ output' = UserRender(controller.render.render, p)
    /\ UNCHANGED <<proxyVars, calls, applyIn, element, controller, changeArg,
                   changes, formVars, flattenVars>>

\* the rendered component calls props.onChange(newValue)
OnChange(newValue) ==
    /\ output.status = "returned"
    /\ changeArg' = newValue
    /\ changes' = OnChangeCalls(newValue, output.props.onChange.name)
    /\ formValue' = IF changes' = <<>> THEN formValue
                    ELSE ControllerFieldOnChange(changes'[Len(changes')])
    /\ UNCHANGED <<proxyVars, calls, applyIn, element, controller, fieldIn,
                   renderCalls, output, formCalls, formReads, flattenVars>>

\* a direct evaluation of flattenErrors
Flatten ==
    /\ errOut = NotRun
    /\ errOut' = flattenErrors(errIn)
    /\ UNCHANGED <<proxyVars, calls, applyIn, element, renderVars, formVars, errIn>>

\* the proxy alone
Next ==
    \/ \E form \in Forms : CreateControllerProxy(MaxProxies, form)
    \/ \E p \in 1..Len(proxies), step \in Steps : Get(MaxProxies, p, step)
    \/ \E p \in 1..Len(proxies), render \in Renders : Apply(p, render)

Spec == Init /\ [][Next]_vars

\* the proxy and FieldController on the form objects
NextForm ==
    \/ \E form \in Forms : CreateControllerProxy(RenderProxies, form)
    \/ \E p \in 1..Len(proxies), step \in Steps : Get(RenderProxies, p, step)
    \/ \E p \in 1..Len(proxies), render \in Renders : Apply(p, render)
    \/ FieldController
    \/ \E invalid \in BOOLEAN, error \in {Undef, LeafError(Str(<<"x">>))} :
          ControllerRender("blurA", invalid, error)
    \/ \E newValue \in JSVals : OnChange(newValue)

SpecForm == Init /\ [][NextForm]_vars

\* the state createControllerProxy(form) and the accesses along path leave
ChainHeap(path) == [i \in 1..(Len(path) + 1) |-> SubSeq(path, 1, i - 1)]
ChainProxies(form, path) == [i \in 1..(Len(path) + 1) |-> [form |-> form, path |-> i]]
ChainTrace(form, path) ==
    [i \in 1..(Len(path) + 1) |-> [form |-> form, steps |-> SubSeq(path, 1, i - 1)]]

\* a proxy chain is built; its proxies are called and the elements rendered
InitRender ==
    /\ \E form \in Forms, path \in RenderPaths :
          /\ heap = ChainHeap(path)
          /\ proxies = ChainProxies(form, path)
          /\ trace = ChainTrace(form, path)
          /\ calls = [i \in 1..(Len(path) + 1) |-> NoCall]
    /\ Idle
    /\ errIn = Undef
    /\ errOut = NotRun

NextRender ==
    \/ \E p \in 1..Len(proxies), render \in Renders : Apply(p, render)
    \/ FieldController
    \/ \E onBlur \in BlurHandlers, invalid \in BOOLEAN, error \in RenderErrors :
          ControllerRender(onBlur, invalid, error)
    \/ \E newValue \in JSVals : OnChange(newValue)

SpecRender == InitRender /\ [][NextRender]_vars

\* flattenErrors on every bounded error structure
InitFlatten ==
    /\ heap = <<emptyPath>>
    /\ proxies = <<>>
    /\ trace = <<>>
    /\ calls = <<>>
    /\ Idle
    /\ errIn \in ErrorInputs
    /\ errOut = NotRun

NextFlatten == Flatten

SpecFlatten == InitFlatten /\ [][NextFlatten]_vars

----------------------------------------------------------------------------
(* Properties *)

Called == element # NoElement
\* the property names accessed to reach the proxy of the latest call
CalledSteps == trace[applyIn.proxy].steps
Rendered == output.status = "returned"
Props == renderCalls[1]

\* a string ends with the optional indicator
EndsWithIndicator(s) == s # <<>> /\ s[Len(s)] = "$"
\* the steps joined with '.', less one trailing indicator
JoinedLessOne(steps) ==
    LET j == Join(steps, <<".">>)
    IN  IF EndsWithIndicator(j) THEN [i \in 1..(Len(j) - 1) |-> j[i]] ELSE j

\* C1: after accesses s1..sn (n >= 1) and a call with a render function, the
\* element's name is the steps joined with '.', less exactly one trailing '$'
\* if there is one, and its form and render are the ones passed in.
C1_NameFormRender ==
    (Called /\ Len(CalledSteps) >= 1) =>
        /\ element.type = "FieldController"
        /\ element.name = JoinedLessOne(CalledSteps)
        /\ element.form = trace[applyIn.proxy].form
        /\ element.render = applyIn.render

\* a call after two accesses, the last ending in two indicators
C1_Witness ==
    /\ Called
    /\ CalledSteps = << <<"a">>, <<"b", "$", "$">> >>
    /\ element.name = <<"a", ".", "b", "$">>
    /\ element.form = 2
    /\ element.render = 2

\* C2: required is true exactly when the accessed path does not end with '$';
\* the Controller's rules and the render function's props get that same flag.
C2_RequiredAgrees ==
    /\ Called => (element.required <=> ~EndsWithIndicator(Join(CalledSteps, <<".">>)))
    /\ controller # NoController => controller.rules = [required |-> element.required]
    /\ renderCalls # <<>> => Props.required = element.required

\* an optional field is rendered: the rule and the prop are both off
C2_Witness ==
    /\ Rendered
    /\ EndsWithIndicator(Join(CalledSteps, <<".">>))
    /\ controller.rules.required = FALSE
    /\ Props.required = FALSE

\* C3: onChange(v) calls the Controller's field.onChange exactly once, with
\* {type: 'change', target: {value: v, name}}, for every v including
\* undefined, and calls no method of the form.
C3_OnChangeIsSetter ==
    changeArg # NotRun =>
        /\ changes = << [type |-> "change",
                         target |-> [value |-> changeArg, name |-> element.name]] >>
        /\ formCalls = <<>>

\* onChange(undefined) on a field with a two-step name
C3_Witness ==
    /\ changeArg = Undef
    /\ Len(changes) = 1
    /\ element.name = <<"a", "$", ".", "b">>

\* C4: a valid field gets error undefined whatever error object the field
\* state carries, and an absent error flattens to undefined.
C4_ValidNoError ==
    /\ (output.status # "none" /\ ~fieldIn.invalid) =>
           (Rendered /\ Len(renderCalls) = 1 /\ Props.error = Undef)
    /\ (output.status # "none" /\ fieldIn.invalid /\ fieldIn.error = Undef) =>
           (Rendered /\ Props.error = Undef)

\* a valid field whose state carries a nested error object
C4_Witness ==
    /\ Rendered
    /\ ~fieldIn.invalid
    /\ fieldIn.error = Nested(<<Nested(<<>>), LeafError(Str(<<"x">>))>>)
    /\ Props.error = Undef

\* C5: an invalid field always gets an error string, never undefined, also
\* when the error object is absent, a leaf has no message, or the structure
\* is empty.
C5_InvalidGetsString ==
    (output.status # "none" /\ fieldIn.invalid) =>
        (Rendered /\ Len(renderCalls) = 1 /\ Props.error.t = "string")

\* C6: only FieldController touches the form object, and only to read
\* form.control; no method of the form is ever called; the field value
\* changes only in a props.onChange call, to the value of the event handed to
\* the Controller's field.onChange.
C6_FormUntouched ==
    [][ /\ formCalls' = <<>>
        /\ formReads' \subseteq {"control"}
        /\ (proxies' # proxies \/ applyIn' # applyIn \/ element' # element
              \/ fieldIn' # fieldIn \/ output' # output) => UNCHANGED formVars
        /\ formReads' # formReads => controller' # controller
        /\ controller' # controller =>
              (formValue' = formValue /\ controller'.control \in {0, element.form})
        /\ formValue' # formValue =>
              /\ Len(changes') = 1
              /\ formValue' = changes'[1].target.value
              /\ formValue' = changeArg' ]_vars

\* the value was changed through onChange on a proxy reached by an access
C6_Witness ==
    /\ formValue = Str(<<"y">>)
    /\ formReads = {"control"}
    /\ Len(proxies) = 2
    /\ trace[2].steps # <<>>
    /\ applyIn.proxy = 2

AllMessageLeaves(o) == HasKey(o, "message") /\ ValueAt(o, "message").t = "string"
RECURSIVE LeavesCarryMessage(_), LeafMessages(_), PartMessages(_)
\* an error structure whose leaves all carry a message
LeavesCarryMessage(o) ==
    /\ o.t = "object"
    /\ \/ AllMessageLeaves(o)
       \/ /\ ~HasKey(o, "message")
          /\ \A i \in 1..Len(o.vals) : LeavesCarryMessage(o.vals[i])
RECURSIVE Concat(_)
Concat(ss) == IF ss = <<>> THEN <<>> ELSE ss[1] \o Concat(Tail(ss))
\* the leaf messages, depth first in enumeration order
LeafMessages(o) ==
    IF HasKey(o, "message") THEN <<ValueAt(o, "message").s>>
    ELSE Concat([i \in 1..Len(o.vals) |-> LeafMessages(o.vals[i])])
\* the same, an empty structure counting as one empty message
PartMessages(o) ==
    IF HasKey(o, "message") THEN <<ValueAt(o, "message").s>>
    ELSE IF o.vals = <<>> THEN << <<>> >>
    ELSE Concat([i \in 1..Len(o.vals) |-> PartMessages(o.vals[i])])

RECURSIVE NoEmptyPart(_)
\* no nested structure in it is empty
NoEmptyPart(o) ==
    \/ HasKey(o, "message")
    \/ /\ o.vals # <<>>
       /\ \A i \in 1..Len(o.vals) : NoEmptyPart(o.vals[i])

\* C7 as stated: for a structure whose leaves all carry a message,
\* flattenErrors is the leaf messages in order joined with a newline.
C7_LeafMessagesJoined ==
    (errOut # NotRun /\ LeavesCarryMessage(errIn)) =>
        errOut = Str(Join(LeafMessages(errIn), <<"\n">>))

\* C7: a node with a 'message' key is a leaf and gives that message; a
\* structure whose leaves all carry a message gives the messages depth first
\* in enumeration order joined with a newline, where an empty structure
\* counts as one empty message; without an empty structure in it this is the
\* leaf messages joined with a newline.
C7_PartsJoined ==
    /\ (errOut # NotRun /\ errIn.t = "object" /\ HasKey(errIn, "message")) =>
           errOut = ValueAt(errIn, "message")
    /\ (errOut # NotRun /\ LeavesCarryMessage(errIn)) =>
           errOut = Str(Join(PartMessages(errIn), <<"\n">>))
    /\ (errOut # NotRun /\ LeavesCarryMessage(errIn) /\ NoEmptyPart(errIn)) =>
           errOut = Str(Join(LeafMessages(errIn), <<"\n">>))

\* a structure with an empty part before two messages
C7_Witness ==
    /\ errIn = Nested(<<Nested(<<>>), LeafError(Str(<<"x">>)), LeafError(Str(<<"y">>))>>)
    /\ errOut = Str(<<"\n", "x", "\n", "y">>)

\* the steps the types offer: a field key, or a key with the indicator
TypedSteps == { <<"a">>, <<"a", "$">>, <<"b">> }
PlainKey(step) == IF EndsWithIndicator(step) THEN SubSeq(step, 1, Len(step) - 1) ELSE step
TypedCall ==
    /\ Called
    /\ Len(CalledSteps) >= 1
    /\ \A i \in 1..Len(CalledSteps) : CalledSteps[i] \in TypedSteps
PlainPath == Join([i \in 1..Len(CalledSteps) |-> PlainKey(CalledSteps[i])], <<".">>)

C9_PathsFixed ==
    /\ heap[1] = emptyPath
    /\ \A p \in 1..Len(proxies) :
          /\ PathOf(p) = trace[p].steps
          /\ calls[p].called =>
                /\ calls[p].name = Name(PathOf(p))
                /\ calls[p].required = Required(PathOf(p))
    /\ Called =>
          /\ calls[applyIn.proxy].called
          /\ element.name = calls[applyIn.proxy].name
          /\ element.required = calls[applyIn.proxy].required

\* a proxy is called again after a child of it was created and called
C9_Witness ==
    /\ Called
    /\ \E q \in 1..Len(proxies) :
          /\ q > applyIn.proxy
          /\ proxies[q].path # proxies[applyIn.proxy].path
          /\ calls[q].called
          /\ Len(trace[q].steps) = Len(CalledSteps) + 1
          /\ SubSeq(trace[q].steps, 1, Len(CalledSteps)) = CalledSteps
          /\ Len(CalledSteps) = 1

\* C10: each Controller callback calls the user's render function exactly
\* once with value, name, onBlur, onChange, error and required, the value,
\* onBlur and name passed through, and returns what it returned.
C10_RenderedOnce ==
    output.status # "none" =>
        /\ Len(renderCalls) = 1
        /\ DOMAIN Props = {"value", "name", "onBlur", "onChange", "error", "required"}
        /\ Props.value = fieldIn.value
        /\ Props.onBlur = fieldIn.onBlur
        /\ Props.name = element.name
        /\ output = [status |-> "returned", by |-> element.render, props |-> Props]

====
